---- MODULE Spec2Model ----
(***************************************************************************)
(* Model of @fng/socket: the action-key builder (createMethodName /        *)
(* camelCase), the token validator (validateToken) and the dispatcher      *)
(* returned by createMesssageHandler (handleMessage).                      *)
(*                                                                         *)
(* JavaScript strings are sequences of one-character strings, so that      *)
(* toLowerCase, toUpperCase, slice, split and join are computed.           *)
(* The JavaScript value undefined is the one-element sequence Undefined.   *)
(***************************************************************************)
EXTENDS Naturals, Sequences, FiniteSets

VARIABLES
    config,         \* the MessageHandlerConfig given to createMesssageHandler
    secret,         \* process.env.JWT_SECRET
    pc,             \* "idle": no dispatch pending; "done": handleMessage settled
    ws,             \* first argument of the last handleMessage call
    message,        \* second argument of the last handleMessage call
    methodName,     \* the key computed at line 78
    result,         \* how the promise of handleMessage settled
    handlerCalls,   \* the actionMethod calls made in the dispatch, in order
    validateCalls,  \* the validateToken calls made in the dispatch, with their outcome
    verifyCalls     \* the jwt.verify calls made in the dispatch, with their outcome

vars == <<config, secret, pc, ws, message, methodName, result,
          handlerCalls, validateCalls, verifyCalls>>

----------------------------------------------------------------------------
(* Bounds *)

\* Longest `auth` string an envelope carries.
MaxAuthLen == 3

----------------------------------------------------------------------------
(* JavaScript values *)

Undefined == <<"undefined">>

\* JavaScript truthiness of a string-or-undefined value: undefined and ""
\* are falsy.
Truthy(v) == v # Undefined /\ v # <<>>

UpperLetters == <<"A","B","C","D","E","F","G","H","I","J","K","L","M",
                  "N","O","P","Q","R","S","T","U","V","W","X","Y","Z">>
LowerLetters == <<"a","b","c","d","e","f","g","h","i","j","k","l","m",
                  "n","o","p","q","r","s","t","u","v","w","x","y","z">>

\* String.prototype.toLowerCase on one character.
charToLowerCase(c) ==
    IF \E i \in 1..Len(UpperLetters) : UpperLetters[i] = c
    THEN LowerLetters[CHOOSE i \in 1..Len(UpperLetters) : UpperLetters[i] = c]
    ELSE c

\* String.prototype.toUpperCase on one character.
charToUpperCase(c) ==
    IF \E i \in 1..Len(LowerLetters) : LowerLetters[i] = c
    THEN UpperLetters[CHOOSE i \in 1..Len(LowerLetters) : LowerLetters[i] = c]
    ELSE c

toLowerCase(s) == [i \in 1..Len(s) |-> charToLowerCase(s[i])]

\* s.slice(1)
slice1(s) == SubSeq(s, 2, Len(s))

\* Array.prototype.join("")
RECURSIVE join(_)
join(words) == IF words = <<>> THEN <<>> ELSE Head(words) \o join(Tail(words))

\* String.prototype.split(sep) for a one-character separator.
RECURSIVE split(_, _)
split(s, sep) ==
    IF \A i \in 1..Len(s) : s[i] # sep
    THEN <<s>>
    ELSE LET i == CHOOSE k \in 1..Len(s) :
                    s[k] = sep /\ \A j \in 1..(k - 1) : s[j] # sep
         IN  <<SubSeq(s, 1, i - 1)>> \o split(SubSeq(s, i + 1, Len(s)), sep)

----------------------------------------------------------------------------
(* src/types/index.ts: the enumerations *)

ACTION_      == <<"A","C","T","I","O","N">>
CODE         == <<"C","O","D","E">>
CREATE       == <<"C","R","E","A","T","E">>
DELETE       == <<"D","E","L","E","T","E">>
DESTROY      == <<"D","E","S","T","R","O","Y">>
END          == <<"E","N","D">>
ERROR        == <<"E","R","R","O","R">>
GET          == <<"G","E","T">>
INVITE       == <<"I","N","V","I","T","E">>
JOIN         == <<"J","O","I","N">>
LEAVE        == <<"L","E","A","V","E">>
LOGIN        == <<"L","O","G","I","N">>
LOGOUT       == <<"L","O","G","O","U","T">>
MESSAGE      == <<"M","E","S","S","A","G","E">>
SEND         == <<"S","E","N","D">>
SIGNUP       == <<"S","I","G","N","U","P">>
START        == <<"S","T","A","R","T">>
STORE        == <<"S","T","O","R","E">>
TURN         == <<"T","U","R","N">>
AUTH         == <<"A","U","T","H">>
GROUP        == <<"G","R","O","U","P">>
GROUPS       == <<"G","R","O","U","P","S">>
NOTIFICATION == <<"N","O","T","I","F","I","C","A","T","I","O","N">>
ROOM         == <<"R","O","O","M">>
UNKNOWN      == <<"U","N","K","N","O","W","N">>
USER         == <<"U","S","E","R">>
ZONE         == <<"Z","O","N","E">>

TransportSubAction ==
    {ACTION_, CODE, CREATE, DELETE, DESTROY, END, ERROR, GET, INVITE, JOIN,
     LEAVE, LOGIN, LOGOUT, MESSAGE, SEND, SIGNUP, START, STORE, TURN}

TransportAction ==
    {AUTH, ERROR, GROUP, GROUPS, MESSAGE, NOTIFICATION, ROOM, UNKNOWN, USER, ZONE}

----------------------------------------------------------------------------
(* string.util: camelCase and createMethodName *)

\* A bug camelCase could have: the idx === 0 test dropped, every word
\* lower-cased at its first letter.
camelCaseNoCapital(input) ==
    join([idx \in 1..Len(input) |->
            <<charToLowerCase(input[idx][1])>> \o slice1(toLowerCase(input[idx]))])

camelCase(input) ==
    join([idx \in 1..Len(input) |->
            <<IF idx = 1 THEN charToLowerCase(input[idx][1])
                         ELSE charToUpperCase(input[idx][1])>>
            \o slice1(toLowerCase(input[idx]))])

handle == <<"h","a","n","d","l","e">>

createMethodName(action, subAction) ==
    LET arr == IF Truthy(subAction) THEN <<handle, action, subAction>>
                                    ELSE <<handle, action>>
    IN  camelCase(arr)

----------------------------------------------------------------------------
(* authentication.util: validateToken *)

\* The `auth` field of an envelope as it arrives from the wire: absent, a
\* string, or a value that is no string (a number here).
AuthUndefined == [t |-> "undefined", s |-> <<>>, n |-> 0]
AuthString(s) == [t |-> "string", s |-> s, n |-> 0]
AuthNumber(n) == [t |-> "number", s |-> <<>>, n |-> n]

\* JavaScript truthiness of an `auth` value (the test !auth of line 87).
authTruthy(a) == (a.t = "string" /\ a.s # <<>>) \/ (a.t = "number" /\ a.n # 0)

\* The tokens that were issued (token issuance is outside the package): the
\* secret each was signed with, whether it has expired, and its `user` claim.
IssuedTokens ==
    { [token |-> <<"a">>,         secret |-> <<"k">>, expired |-> FALSE, user |-> "alice"],
      [token |-> <<"a","a">>,     secret |-> <<"k">>, expired |-> TRUE,  user |-> "bob"],
      [token |-> <<"a","a","a">>, secret |-> <<"q">>, expired |-> FALSE, user |-> "undefined"] }

NoClaims == [user |-> "undefined"]

\* jwt.verify(token, secret): the decoded claims when the token was signed
\* with this secret and has not expired, an exception otherwise.
jwtVerify(token, sec) ==
    IF \E r \in IssuedTokens : r.token = token /\ r.secret = sec /\ ~r.expired
    THEN LET r == CHOOSE r \in IssuedTokens :
                      r.token = token /\ r.secret = sec /\ ~r.expired
         IN  [ok |-> TRUE, claims |-> [user |-> r.user]]
    ELSE [ok |-> FALSE, claims |-> NoClaims]

\* A bug the secret test could have: only an absent secret is refused, an
\* empty one is handed to jwt.verify.
noSecretOnlyUndefined(sec) == sec = Undefined

\* !secret
noSecret(sec) == ~Truthy(sec)

TextInvalidAuth == "Invalid auth token"
TextNoSecret    == "No JWT secret found. Please set JWT_SECRET in .env file."
TextInvalidToken == "Invalid Token. Please log in again."

\* bearer.split(" ")[1] || bearer
bearerToken(bearer) ==
    LET parts == split(bearer, " ")
    IN  IF Len(parts) >= 2 /\ parts[2] # <<>> THEN parts[2] ELSE bearer

\* A bug validateToken could have: the catch block swallows the exception of
\* jwt.verify and returns an empty claims object.
validateTokenSwallow(bearer, sec) ==
    IF bearer.t # "string"
    THEN [ok |-> FALSE, text |-> TextInvalidAuth, claims |-> NoClaims, verify |-> <<>>]
    ELSE LET token == bearerToken(bearer.s)
         IN  IF noSecret(sec)
             THEN [ok |-> FALSE, text |-> TextNoSecret, claims |-> NoClaims,
                   verify |-> <<>>]
             ELSE LET v == jwtVerify(token, sec)
                      call == [token |-> token, secret |-> sec, ok |-> v.ok]
                  IN  [ok |-> TRUE, text |-> "", claims |-> v.claims,
                       verify |-> <<call>>]

\* The outcome of validateToken(bearer) with process.env.JWT_SECRET = sec:
\* ok and the decoded claims, or the message of the Error thrown; verify is
\* the jwt.verify call it made, if any.
validateToken(bearer, sec) ==
    IF bearer.t # "string"
    THEN [ok |-> FALSE, text |-> TextInvalidAuth, claims |-> NoClaims, verify |-> <<>>]
    ELSE LET token == bearerToken(bearer.s)
         IN  IF noSecret(sec)
             THEN [ok |-> FALSE, text |-> TextNoSecret, claims |-> NoClaims,
                   verify |-> <<>>]
             ELSE LET v == jwtVerify(token, sec)
                      call == [token |-> token, secret |-> sec, ok |-> v.ok]
                  IN  IF v.ok
                      THEN [ok |-> TRUE, text |-> "", claims |-> v.claims,
                            verify |-> <<call>>]
                      ELSE [ok |-> FALSE, text |-> TextInvalidToken,
                            claims |-> NoClaims, verify |-> <<call>>]

----------------------------------------------------------------------------
(* message-handler: createMesssageHandler / handleMessage *)

TextInvalidAction == "Invalid Action "
TextNotLoggedIn   == "Not Logged in"

\* A rejected promise: new Error(text + key).
Throw(text, key) == [kind |-> "throw", text |-> text, key |-> key, val |-> <<>>]
\* A promise fulfilled with the value the handler returned.
Return(val) == [kind |-> "return", text |-> "", key |-> <<>>, val |-> val]
NoResult == [kind |-> "none", text |-> "", key |-> <<>>, val |-> <<>>]

\* A bug the error message could have: the action is interpolated, not the
\* computed key.
invalidActionNamesAction(m, key) == Throw(TextInvalidAction, m.action)

\* throw new Error(`Invalid Action ${methodName}`)
invalidAction(m, key) == Throw(TextInvalidAction, key)

\* A bug the gate could have: the flag read with the opposite polarity, every
\* value but the literal false asking for authentication.
authGateNotFalse(action, noAuth) == action # AUTH /\ noAuth # "false"

\* A bug the gate could have: the gate left out, no action authenticated.
authGateNever(action, noAuth) == FALSE

\* A bug the gate could have: the flag tested for truthiness (!noAuth), so
\* that an unset flag asks for authentication too.
authGateNotTruthy(action, noAuth) == action # AUTH /\ noAuth # "true"

\* A bug the gate could have: the flag not read, every action but AUTH
\* authenticated.
authGateFlagIgnored(action, noAuth) == action # AUTH

\* A bug the gate could have: the AUTH action not exempted.
authGateNoExemption(action, noAuth) == noAuth = "false"

\* action !== TransportAction.AUTH && noAuth === false
authGate(action, noAuth) == action # AUTH /\ noAuth = "false"

\* A bug the call could have: the user left out of the arguments.
actionMethodCallNoUser(entry, w, payload, user) ==
    [method |-> entry.actionMethod, ws |-> w, payload |-> payload,
     user |-> "undefined"]

\* actionMethod(ws, payload, user)
actionMethodCall(entry, w, payload, user) ==
    [method |-> entry.actionMethod, ws |-> w, payload |-> payload, user |-> user]

\* One run of handleMessage(w, m) under registry cfg and secret sec: how its
\* promise settles and the calls it made.
handleMessage(cfg, sec, w, m) ==
    LET key == createMethodName(m.action, m.subAction)
        none == [methodName |-> key, result |-> NoResult, handlerCalls |-> <<>>,
                 validateCalls |-> <<>>, verifyCalls |-> <<>>]
    IN  IF key \notin DOMAIN cfg
        THEN [none EXCEPT !.result = invalidAction(m, key)]
        ELSE LET actionObj == cfg[key]
                 invoke(user) ==
                     LET call == actionMethodCall(actionObj, w, m.payload, user)
                     IN  <<call>>
             IN  IF authGate(m.action, actionObj.noAuth)
                 THEN IF ~authTruthy(m.auth)
                      THEN [none EXCEPT !.result = Throw(TextNotLoggedIn, <<>>)]
                      ELSE LET res == validateToken(m.auth, sec)
                               vcall == [bearer |-> m.auth, ok |-> res.ok,
                                         claims |-> res.claims]
                           IN  IF ~res.ok
                               THEN [none EXCEPT
                                       !.result = Throw(res.text, <<>>),
                                       !.validateCalls = <<vcall>>,
                                       !.verifyCalls = res.verify]
                               ELSE [none EXCEPT
                                       !.result = Return(actionObj.actionMethod),
                                       !.handlerCalls = invoke(res.claims.user),
                                       !.validateCalls = <<vcall>>,
                                       !.verifyCalls = res.verify]
                 ELSE [none EXCEPT
                         !.result = Return(actionObj.actionMethod),
                         !.handlerCalls = invoke("undefined")]

----------------------------------------------------------------------------
(* The inputs *)

Flags == {"true", "false", "undefined"}

\* The action/sub-action pairs an integrator registers handlers for.
RegPairs == {<<AUTH, Undefined>>, <<AUTH, LOGIN>>, <<ZONE, JOIN>>}

\* A registry: each of RegPairs under its key, with a noAuth flag and its own
\* handler (named by the key it is registered under).
registry(flag) ==
    [k \in {createMethodName(p[1], p[2]) : p \in RegPairs} |->
        LET p == CHOOSE p \in RegPairs : createMethodName(p[1], p[2]) = k
        IN  [noAuth |-> flag[p], actionMethod |-> k]]

\* The registries: every assignment of flags to the registered pairs.  The
\* pairs outside RegPairs are the unregistered keys.
Configs == {registry(flag) : flag \in [RegPairs -> Flags]}

Secrets == {Undefined, <<>>, <<"k">>, <<"q">>}

AuthAlphabet == {"a", " "}

\* Every string over alphabet of length n.
RECURSIVE stringsOfLen(_, _)
stringsOfLen(alphabet, n) ==
    IF n = 0 THEN {<<>>}
    ELSE {<<c>> \o s : c \in alphabet, s \in stringsOfLen(alphabet, n - 1)}

AuthValues ==
    {AuthUndefined, AuthNumber(0), AuthNumber(5)}
    \cup {AuthString(s) : s \in UNION {stringsOfLen(AuthAlphabet, n) : n \in 0..MaxAuthLen}}

Connections == {"ws1", "ws2"}
Payloads == {"undefined", "p1"}

\* The envelopes the dispatcher is driven with under Spec.
Messages ==
    [auth : AuthValues, action : {AUTH, ZONE},
     subAction : {Undefined, LOGIN, JOIN}, payload : Payloads]

\* The envelopes the dispatcher is driven with under SpecKey: every pair of
\* the declared enumerations.
KeyMessages ==
    [auth : {AuthUndefined}, action : TransportAction,
     subAction : TransportSubAction \cup {Undefined}, payload : {"undefined"}]

NoMessage == [auth |-> AuthUndefined, action |-> <<>>, subAction |-> Undefined,
              payload |-> "undefined"]

----------------------------------------------------------------------------
(* The state machine *)

Idle ==
    /\ pc = "idle"
    /\ ws = "none"
    /\ message = NoMessage
    /\ methodName = <<>>
    /\ result = NoResult
    /\ handlerCalls = <<>>
    /\ validateCalls = <<>>
    /\ verifyCalls = <<>>

Init ==
    /\ config \in Configs
    /\ secret \in Secrets
    /\ Idle

\* The host framework calls the dispatcher with a received envelope and the
\* promise settles.
Dispatch(w, m) ==
    /\ pc = "idle"
    /\ LET out == handleMessage(config, secret, w, m)
       IN  /\ methodName' = out.methodName
           /\ result' = out.result
           /\ handlerCalls' = out.handlerCalls
           /\ validateCalls' = out.validateCalls
           /\ verifyCalls' = out.verifyCalls
    /\ ws' = w
    /\ message' = m
    /\ pc' = "done"
    /\ UNCHANGED <<config, secret>>

\* The host framework's message callback relays the outcome to the client
\* (ws.send of the returned envelope or of an ERROR envelope) and is ready
\* for the next message; nothing of a dispatch is kept.
Relay ==
    /\ pc = "done"
    /\ pc' = "idle"
    /\ ws' = "none"
    /\ message' = NoMessage
    /\ methodName' = <<>>
    /\ result' = NoResult
    /\ handlerCalls' = <<>>
    /\ validateCalls' = <<>>
    /\ verifyCalls' = <<>>
    /\ UNCHANGED <<config, secret>>

DispatchAny == \E w \in Connections, m \in Messages : Dispatch(w, m)

DispatchKey == \E m \in KeyMessages : Dispatch("ws1", m)

Next == DispatchAny \/ Relay

Spec == Init /\ [][Next]_vars

NextKey == DispatchKey \/ Relay

SpecKey == Init /\ [][NextKey]_vars

----------------------------------------------------------------------------
(* What the properties speak of *)

Done == pc = "done"

\* The key of the settled dispatch has an entry in the registry.
Registered == methodName \in DOMAIN config

\* The noAuth flag of the entry the settled dispatch looked up.
Flag == config[methodName].noAuth

NonAuthAction == message.action # AUTH

\* The `auth` field is missing or empty.
AuthMissing == message.auth = AuthUndefined \/ message.auth = AuthString(<<>>)

NotLoggedIn == result = Throw(TextNotLoggedIn, <<>>)

\* The entry's handler was invoked exactly once, with the connection and the
\* envelope's payload unchanged and the given user.
HandlerOnceWith(user) ==
    handlerCalls = << [method |-> config[methodName].actionMethod, ws |-> ws,
                       payload |-> message.payload, user |-> user] >>

\* A record of IssuedTokens that verifies under the configured secret.
Genuine(r) == r.secret = secret /\ ~r.expired

\* The token the `auth` string carries, the scheme prefix stripped.
CarriedToken == bearerToken(message.auth.s)

\* The `auth` value is a string carrying a token that verifies.
AuthVerifies ==
    /\ message.auth.t = "string"
    /\ authTruthy(message.auth)
    /\ \E r \in IssuedTokens : Genuine(r) /\ r.token = CarriedToken

\* The `auth` value is present and does not verify: no string, or a string
\* whose token is expired, signed with another secret or was never issued.
AuthFailsVerification ==
    /\ authTruthy(message.auth)
    /\ \/ message.auth.t # "string"
       \/ ~ \E r \in IssuedTokens : Genuine(r) /\ r.token = CarriedToken

InvalidTokenError ==
    result \in {Throw(TextInvalidToken, <<>>), Throw(TextInvalidAuth, <<>>)}

ConfigurationError == result = Throw(TextNoSecret, <<>>)

----------------------------------------------------------------------------
(* C1 *)

\* C1 as stated: a dispatch of a non-AUTH action to an entry whose flag is
\* not exactly false, with a missing or empty auth field, fails with
\* "Not Logged in" and the handler is not invoked.
C1_AsStated ==
    (Done /\ Registered /\ NonAuthAction /\ Flag # "false" /\ AuthMissing)
        => (NotLoggedIn /\ handlerCalls = <<>>)

\* C1 amended: a dispatch of a non-AUTH action to an entry whose noAuth flag
\* is exactly false, with a missing or empty auth field, fails with
\* "Not Logged in" and the handler is not invoked.
C1_NoAuthFalseNeedsAuth ==
    (Done /\ Registered /\ NonAuthAction /\ Flag = "false" /\ AuthMissing)
        => (NotLoggedIn /\ handlerCalls = <<>> /\ validateCalls = <<>>)

C1_Witness ==
    /\ Done /\ Registered /\ NonAuthAction /\ Flag = "false"
    /\ message.auth = AuthString(<<>>)
    /\ NotLoggedIn

----------------------------------------------------------------------------
(* C2 *)

\* C2 as stated: for an entry whose flag is exactly false, and any envelope,
\* validateToken is not called and the handler is invoked exactly once with
\* an undefined user.
C2_AsStated ==
    (Done /\ Registered /\ Flag = "false")
        => (validateCalls = <<>> /\ HandlerOnceWith("undefined"))

\* C2 amended: for an entry whose noAuth flag is not exactly false (true or
\* unset), and any envelope, validateToken is not called and the handler is
\* invoked exactly once with an undefined user; an entry whose flag is
\* exactly false gets this treatment for the AUTH action only, and for any
\* other action its handler is never invoked without a validateToken call.
C2_NotFalseSkipsValidation ==
    (Done /\ Registered)
        => IF Flag # "false" \/ ~NonAuthAction
           THEN validateCalls = <<>> /\ HandlerOnceWith("undefined")
           ELSE handlerCalls # <<>> => validateCalls # <<>>

C2_Witness ==
    /\ Done /\ Registered /\ NonAuthAction /\ Flag = "true"
    /\ authTruthy(message.auth)
    /\ HandlerOnceWith("undefined")

----------------------------------------------------------------------------
(* C3 *)

\* C3 as stated: for a non-AUTH action every flag value other than the
\* literal false (undefined and true included) asks for authentication: the
\* dispatch requires a non-empty auth field and passes it to validateToken
\* before the handler runs.
C3_AsStated ==
    (Done /\ Registered /\ NonAuthAction /\ Flag # "false")
        => /\ ~authTruthy(message.auth) => NotLoggedIn
           /\ authTruthy(message.auth) =>
                 Len(validateCalls) = 1 /\ validateCalls[1].bearer = message.auth
           /\ handlerCalls # <<>> => validateCalls # <<>>

\* C3 amended: the flag is tri-state with the literal false as the one value
\* that asks for authentication: for a non-AUTH action, the flag false
\* requires a non-empty auth field and passes it to validateToken before the
\* handler runs, and every other value, undefined (flag not set) and true
\* included, is treated as no authentication required.
C3_OnlyFalseAuthenticates ==
    (Done /\ Registered /\ NonAuthAction)
        => IF Flag = "false"
           THEN /\ ~authTruthy(message.auth) => NotLoggedIn /\ handlerCalls = <<>>
                /\ authTruthy(message.auth) =>
                      /\ Len(validateCalls) = 1
                      /\ validateCalls[1].bearer = message.auth
                      /\ handlerCalls # <<>> => validateCalls[1].ok
           ELSE /\ validateCalls = <<>>
                /\ result.kind = "return"
                /\ HandlerOnceWith("undefined")

C3_Witness ==
    /\ Done /\ Registered /\ NonAuthAction /\ Flag = "undefined"
    /\ AuthMissing
    /\ result.kind = "return"

----------------------------------------------------------------------------
(* C4 *)

\* C4: a dispatch of the AUTH action (with any or no sub-action) to a
\* registered key never fails with "Not Logged in" and never calls
\* validateToken, whatever the flag and the auth field; the handler is
\* invoked with an undefined user.
C4_AuthActionExempt ==
    (Done /\ Registered /\ message.action = AUTH)
        => /\ ~NotLoggedIn
           /\ validateCalls = <<>>
           /\ HandlerOnceWith("undefined")

C4_Witness ==
    /\ Done /\ Registered /\ message.action = AUTH /\ message.subAction = LOGIN
    /\ Flag = "false" /\ AuthMissing
    /\ HandlerOnceWith("undefined")

----------------------------------------------------------------------------
(* C5 *)

\* C5: a dispatch whose computed key has no entry in the registry fails with
\* "Invalid Action <key>", naming exactly that key; no handler is invoked
\* and validateToken is not called, whatever the auth field.
C5_UnknownAction ==
    (Done /\ createMethodName(message.action, message.subAction) \notin DOMAIN config)
        => /\ result = Throw(TextInvalidAction,
                             createMethodName(message.action, message.subAction))
           /\ handlerCalls = <<>>
           /\ validateCalls = <<>>

C5_Witness ==
    /\ Done /\ ~Registered
    /\ message.action = ZONE /\ message.subAction = LOGIN
    /\ message.auth = AuthString(<<"a">>) /\ secret = <<"k">>
    /\ result.key = <<"h","a","n","d","l","e","Z","o","n","e","L","o","g","i","n">>

----------------------------------------------------------------------------
(* C6 *)

\* The user claim of the issued token the `auth` string carries.
CarriedUser ==
    (CHOOSE r \in IssuedTokens : Genuine(r) /\ r.token = CarriedToken).user

\* C6 as stated, a gated entry being one whose flag is not exactly false: a
\* dispatch of a non-AUTH action to such an entry with an auth token that
\* verifies invokes the handler exactly once, its user the token's user
\* claim, connection and payload unchanged.
C6_AsStated ==
    (Done /\ Registered /\ NonAuthAction /\ Flag # "false" /\ AuthVerifies)
        => HandlerOnceWith(CarriedUser)

\* C6 amended: a dispatch of a non-AUTH action to an entry whose noAuth flag
\* is exactly false, with an auth token that verifies, calls validateToken
\* once with the envelope's auth value and invokes the handler exactly once,
\* its user the user claim of the decoded token, connection and payload
\* unchanged.
C6_ValidTokenGivesUser ==
    (Done /\ Registered /\ NonAuthAction /\ Flag = "false" /\ AuthVerifies)
        => /\ validateCalls = << [bearer |-> message.auth, ok |-> TRUE,
                                  claims |-> [user |-> CarriedUser]] >>
           /\ HandlerOnceWith(CarriedUser)
           /\ result.kind = "return"

C6_Witness ==
    /\ Done /\ Registered /\ NonAuthAction /\ Flag = "false"
    /\ message.auth = AuthString(<<"a", " ", "a">>) /\ secret = <<"k">>
    /\ message.payload = "p1"
    /\ Len(handlerCalls) = 1 /\ handlerCalls[1].user = "alice"

----------------------------------------------------------------------------
(* C7 *)

\* C7 as stated, a gated entry being one whose flag is not exactly false: with
\* a secret configured, a dispatch of a non-AUTH action to such an entry
\* with an auth token that fails verification fails with the invalid-token
\* error and the handler is not invoked.
C7_AsStated ==
    (Done /\ Registered /\ NonAuthAction /\ Flag # "false" /\ Truthy(secret)
          /\ AuthFailsVerification)
        => (InvalidTokenError /\ handlerCalls = <<>>)

\* C7 amended: with a secret configured, a dispatch of a non-AUTH action to
\* an entry whose noAuth flag is exactly false, with an auth token that fails
\* verification (expired, tampered, or no valid token shape), fails with the
\* invalid-token error and the handler is not invoked.
C7_BadTokenRejected ==
    (Done /\ Registered /\ NonAuthAction /\ Flag = "false" /\ Truthy(secret)
          /\ AuthFailsVerification)
        => (InvalidTokenError /\ handlerCalls = <<>>)

C7_Witness ==
    /\ Done /\ Registered /\ NonAuthAction /\ Flag = "false"
    /\ secret = <<"k">> /\ message.auth = AuthString(<<"a", "a">>)
    /\ result = Throw(TextInvalidToken, <<>>)
    /\ verifyCalls = << [token |-> <<"a", "a">>, secret |-> <<"k">>, ok |-> FALSE] >>

----------------------------------------------------------------------------
(* C8 *)

\* C8 as stated, a gated entry being one whose flag is not exactly false: with
\* no secret configured (absent or empty), a dispatch of a non-AUTH action
\* to such an entry carrying an auth value fails with the configuration
\* error and the handler is not invoked, whatever the auth value is, a
\* non-string value included.
C8_AsStated ==
    (Done /\ Registered /\ NonAuthAction /\ Flag # "false" /\ ~Truthy(secret)
          /\ authTruthy(message.auth))
        => (ConfigurationError /\ handlerCalls = <<>>)

\* C8 amended: with no secret configured (absent or empty), a dispatch of a
\* non-AUTH action to an entry whose noAuth flag is exactly false carrying
\* an auth value never invokes the handler and never reaches jwt.verify; it
\* fails with the configuration error whatever string the auth value is (one
\* that would verify or not), and with "Invalid auth token" when the auth
\* value is no string.
C8_NoSecretRejectsAll ==
    (Done /\ Registered /\ NonAuthAction /\ Flag = "false" /\ ~Truthy(secret)
          /\ authTruthy(message.auth))
        => /\ handlerCalls = <<>>
           /\ verifyCalls = <<>>
           /\ message.auth.t = "string" => ConfigurationError
           /\ message.auth.t # "string" => result = Throw(TextInvalidAuth, <<>>)

C8_Witness ==
    /\ Done /\ Registered /\ NonAuthAction /\ Flag = "false"
    /\ secret = <<>> /\ message.auth = AuthString(<<"a">>)
    /\ ConfigurationError

----------------------------------------------------------------------------
(* C9 *)

\* PascalCase of an identifier: first letter upper-cased, the rest
\* lower-cased; the empty string for an absent one.
PascalCase(w) ==
    IF ~Truthy(w) THEN <<>>
    ELSE <<charToUpperCase(w[1])>> \o [i \in 1..(Len(w) - 1) |-> charToLowerCase(w[i + 1])]

\* The pairs of the declared enumerations, the sub-action possibly absent.
EnumPairs == TransportAction \X (TransportSubAction \cup {Undefined})

\* The key createMethodName gives each pair of the enumerations, as the set
\* of <<action, subAction, key>>.
KeyTable == {<<p[1], p[2], createMethodName(p[1], p[2])>> : p \in EnumPairs}

\* C9: for every action and every sub-action of the enumerations (or none),
\* the key is "handle" + PascalCase(action) + PascalCase(subAction or ""),
\* and no other pair of the enumerations has the same key.
C9_KeyPatternInjective ==
    Done =>
        /\ methodName = handle \o PascalCase(message.action)
                               \o PascalCase(message.subAction)
        /\ \A e \in KeyTable :
              <<e[1], e[2]>> # <<message.action, message.subAction>>
                  => e[3] # methodName

C9_Witness ==
    /\ Done /\ message.action = GROUP /\ message.subAction = SEND
    /\ methodName = <<"h","a","n","d","l","e","G","r","o","u","p","S","e","n","d">>
    /\ <<GROUPS, END,
          <<"h","a","n","d","l","e","G","r","o","u","p","s","E","n","d">>>> \in KeyTable
    /\ <<MESSAGE, Undefined,
          <<"h","a","n","d","l","e","M","e","s","s","a","g","e">>>> \in KeyTable
    /\ <<ZONE, JOIN,
          <<"h","a","n","d","l","e","Z","o","n","e","J","o","i","n">>>> \in KeyTable

----------------------------------------------------------------------------
(* C10 *)

\* C10: a dispatch to an entry whose noAuth flag is true, for any action and
\* with or without an auth field, never fails with the not-authenticated,
\* invalid-token or configuration error, does not call validateToken, and
\* invokes actionMethod exactly once with an undefined user.
C10_NoAuthTrue ==
    (Done /\ Registered /\ Flag = "true")
        => /\ ~NotLoggedIn /\ ~InvalidTokenError /\ ~ConfigurationError
           /\ validateCalls = <<>>
           /\ HandlerOnceWith("undefined")

C10_Witness ==
    /\ Done /\ Registered /\ NonAuthAction /\ Flag = "true"
    /\ message.auth = AuthString(<<"a", "a">>) /\ secret = Undefined
    /\ result.kind = "return"

====
